---- MODULE Spec2Model ----
(***************************************************************************)
(* One invocation of the nala command line (src/nala/nala.py).  A state is *)
(* the position of the running command, the values of its locals, the log  *)
(* of the calls it has made into the engine and the helper modules, and    *)
(* how the process ended.  The helper modules (nala.install, nala.error,   *)
(* nala.utils, nala.cache, nala.show, nala.search) are not part of the     *)
(* source file: each of their calls is a step whose outcome is drawn from  *)
(* the outcomes its call site handles.                                     *)
(***************************************************************************)
EXTENDS Naturals, Sequences, FiniteSets

\* ---------------------------------------------------------------- bounds
\* longest list of package names given on the command line
MaxNames == 2
\* longest exclude list (given, or returned by fix_excluded)
MaxExclude == 1
\* deepest nesting of _upgrade inside its own except handler
MaxRetry == 2
\* longest regex given to search, in characters
MaxRegexLen == 3

\* ------------------------------------------------------------- universes
\* packages of the cache
CachePkgs == {"p1", "p2"}
\* a glob that matches p1 and p2, and a glob that matches nothing
GlobHit == "p*"
GlobMiss == "q*"
\* a virtual package provided by p2
VirtualName == "virt"
\* a path to a .deb file that does not exist
MissingDeb == "ghost.deb"
\* a name that is no package, glob, virtual package or file
Unknown == "nope"
Names == CachePkgs \cup {GlobHit, GlobMiss, VirtualName, MissingDeb, Unknown}

RegexChars == {"a", ".", "*", "(", ")"}

LISTS_DIR == "LISTS_DIR"
LISTS_PARTIAL_DIR == "LISTS_PARTIAL_DIR"
ARCHIVE_DIR == "ARCHIVE_DIR"
PARTIAL_DIR == "PARTIAL_DIR"
PKGCACHE == "PKGCACHE"
SRCPKGCACHE == "SRCPKGCACHE"
NALA_SOURCES == "NALA_SOURCES"
Paths == {LISTS_DIR, LISTS_PARTIAL_DIR, ARCHIVE_DIR, PARTIAL_DIR, PKGCACHE,
          SRCPKGCACHE, NALA_SOURCES}

SudoCommands == {"update", "upgrade", "install", "remove", "purge",
                 "autoremove", "autopurge", "clean"}
Commands == SudoCommands \cup {"show", "search"}

\* --------------------------------------------------------------- helpers
SeqsUpTo(S, n) == UNION {[1..k -> S] : k \in 0..n}

Range(s) == {s[i] : i \in 1..Len(s)}

RECURSIVE Flatten(_)
Flatten(ss) == IF ss = <<>> THEN <<>> ELSE Head(ss) \o Flatten(Tail(ss))

RECURSIVE Filter(_, _)
Filter(s, keep) ==
    IF s = <<>> THEN <<>>
    ELSE (IF Head(s) \in keep THEN <<Head(s)>> ELSE <<>>) \o Filter(Tail(s), keep)

Count(s, x) == Cardinality({i \in 1..Len(s) : s[i] = x})

\* Cache.glob_filter: a glob that matches packages is replaced by them, any
\* other name is kept
GlobFilter(names) ==
    Flatten([i \in 1..Len(names) |->
        IF names[i] = GlobHit THEN <<"p1", "p2">> ELSE <<names[i]>>])

\* Cache.virtual_filter: a virtual package with one provider is replaced by it
VirtualFilter(names) ==
    [i \in 1..Len(names) |-> IF names[i] = VirtualName THEN "p2" ELSE names[i]]

\* split_local: the .deb paths among the names that do not exist
SplitLocal(names) == Filter(names, {MissingDeb})

\* check_broken: the names that are no package of the cache
NotInCache(names) == Filter(names, Names \ CachePkgs)

\* pkg_error: ends the process with status 1 when given terminate=True
PkgErrorExits(terminate) == terminate

\* broken_error: ends the process with status 1 when it has broken packages to
\* explain, returns False otherwise
BrokenErrorExits(b) == b # {}

\* unmarked_error: ends the process with status 1
UnmarkedErrorExits == TRUE

\* re.compile on RegexChars: parentheses balance; "*" repeats something
RECURSIVE Balanced(_, _)
Balanced(re, open) ==
    IF re = <<>> THEN open = 0
    ELSE IF Head(re) = "(" THEN Balanced(Tail(re), open + 1)
    ELSE IF Head(re) = ")" THEN open > 0 /\ Balanced(Tail(re), open - 1)
    ELSE Balanced(Tail(re), open)

Compiles(re) ==
    /\ Balanced(re, 0)
    /\ \A i \in 1..Len(re) :
         re[i] = "*" => (i > 1 /\ re[i - 1] \notin {"*", "("})

\* no pattern compiled yet
NoPattern == <<"none">>

Star == <<"*">>
DotStar == <<".", "*">>

RewriteAnyLeadingStar(regex) ==
    IF regex # <<>> /\ Head(regex) = "*" THEN <<".">> \o regex ELSE regex

\* search: if regex == "*": regex = ".*"
Rewrite(regex) == IF regex = Star THEN DotStar ELSE regex

CleanTargetsFallThrough(lists, fetch) ==
    (IF lists THEN {LISTS_DIR, LISTS_PARTIAL_DIR} ELSE {})
      \cup (IF fetch THEN {NALA_SOURCES}
            ELSE {ARCHIVE_DIR, PARTIAL_DIR, LISTS_PARTIAL_DIR, PKGCACHE, SRCPKGCACHE})

\* clean: the paths the call removes, by its flags
CleanTargets(lists, fetch) ==
    IF lists THEN {LISTS_DIR, LISTS_PARTIAL_DIR}
    ELSE IF fetch THEN {NALA_SOURCES}
    ELSE {ARCHIVE_DIR, PARTIAL_DIR, LISTS_PARTIAL_DIR, PKGCACHE, SRCPKGCACHE}

InstallFailedIgnoringMarks(ok, allMarked) == ~ok

\* _install: not package_manager(...) or not all(marked ...)
InstallFailed(ok, allMarked) == ~ok \/ ~allMarked

ResumeOuter == "up_kept_back"

\* _upgrade: sys.exit() after the nested _upgrade returns
AfterNestedReturn == "exit"

\* ----------------------------------------------------------------- state
VARIABLES
    cmd,        \* the subcommand
    arg,        \* its arguments and flags as given
    is_su,      \* whether the process runs as root
    fs,         \* the cache paths that hold something
    pc,         \* position in the command
    depth,      \* nesting of _upgrade in its except handler
    exclude,    \* _upgrade's exclude
    fixed,      \* what fix_excluded returned last
    pkg_names,  \* the command's pkg_names
    not_found,  \* check_broken's not_found (with not_exist for install)
    ver_failed, \* whether check_broken's ver_failed is non-empty
    broken,     \* check_broken's broken
    pm_ok,      \* package_manager's result: "none", "true", "false"
    marked,     \* packages marked install, upgrade or downgrade
    answer,     \* the answer to the last ask: "none", "yes", "no"
    prompts,    \* how many times ask was shown
    calls,      \* log of the calls made
    stderr,     \* kinds of messages written
    reported,   \* names reported as not found
    pattern,    \* search's compiled pattern, NoPattern before
    examined,   \* packages search has looked at
    printed,    \* packages printed by search or show
    status,     \* "running", "returned", "exited", "raised"
    exit_code,  \* process exit status once ended
    exit_at     \* the statement that ended the process

vars == <<cmd, arg, is_su, fs, pc, depth, exclude, fixed, pkg_names, not_found,
          ver_failed, broken, pm_ok, marked, answer, prompts, calls, stderr,
          reported, pattern, examined, printed, status, exit_code, exit_at>>

given == <<cmd, arg, is_su>>
upg == <<depth, exclude, fixed, answer, prompts>>
pkgs == <<pkg_names, not_found, ver_failed, broken, pm_ok>>
srch == <<pattern, examined, printed>>
ended == <<status, exit_code, exit_at>>

NoArg == [names |-> <<>>, exclude |-> <<>>, lists |-> FALSE, fetch |-> FALSE,
          fix_broken |-> FALSE, regex |-> <<>>, fs |-> Paths]

Args(c) ==
    IF c = "install" THEN
        {[NoArg EXCEPT !.names = n, !.fix_broken = f] :
            n \in SeqsUpTo(Names, MaxNames), f \in BOOLEAN}
    ELSE IF c \in {"remove", "purge", "show"} THEN
        {[NoArg EXCEPT !.names = n] : n \in SeqsUpTo(Names, MaxNames) \ {<<>>}}
    ELSE IF c = "upgrade" THEN
        {[NoArg EXCEPT !.exclude = e] : e \in SeqsUpTo(CachePkgs, MaxExclude)}
    ELSE IF c = "clean" THEN
        {[NoArg EXCEPT !.lists = l, !.fetch = f, !.fs = p] :
            l \in BOOLEAN, f \in BOOLEAN, p \in SUBSET Paths}
    ELSE IF c = "search" THEN
        {[NoArg EXCEPT !.regex = r] : r \in SeqsUpTo(RegexChars, MaxRegexLen)}
    ELSE {NoArg}

Init ==
    /\ cmd \in Commands
    /\ arg \in Args(cmd)
    /\ is_su \in BOOLEAN
    /\ fs = arg.fs
    /\ pc = "entry"
    /\ depth = 0
    /\ exclude = arg.exclude
    /\ fixed = <<>>
    /\ pkg_names = arg.names
    /\ not_found = <<>>
    /\ ver_failed = FALSE
    /\ broken = {}
    /\ pm_ok = "none"
    /\ marked = {}
    /\ answer = "none"
    /\ prompts = 0
    /\ calls = <<>>
    /\ stderr = {}
    /\ reported = {}
    /\ pattern = NoPattern
    /\ examined = {}
    /\ printed = {}
    /\ status = "running"
    /\ exit_code = 0
    /\ exit_at = "none"

\* ------------------------------------------------------- ways of ending
\* sys.exit(code) or sys.exit(message): the message goes to stderr
Exit(code, at, msgs) ==
    /\ pc' = "done"
    /\ status' = "exited"
    /\ exit_code' = code
    /\ exit_at' = at
    /\ stderr' = stderr \cup msgs

\* an exception nothing catches: traceback, status 1
Raise(at) ==
    /\ pc' = "done"
    /\ status' = "raised"
    /\ exit_code' = 1
    /\ exit_at' = at
    /\ UNCHANGED stderr

\* the command function returns
Return ==
    /\ pc' = "done"
    /\ status' = "returned"
    /\ exit_code' = 0
    /\ exit_at' = "return"
    /\ UNCHANGED stderr

Goto(l) == pc' = l /\ UNCHANGED <<ended, stderr>>

Call(cs) == calls' = calls \o cs

\* sudo_check(): exits with a message unless root
SudoCheck(next) ==
    /\ Call(<<"sudo_check">>)
    /\ IF is_su THEN Goto(next) ELSE Exit(1, "sudo_check", {"need_root"})
    /\ UNCHANGED <<given, fs, upg, pkgs, marked, reported, srch>>

\* setup_cache(): opens the cache
SetupCache(next) ==
    /\ Call(<<"setup_cache">>)
    /\ Goto(next)
    /\ UNCHANGED <<given, fs, upg, pkgs, marked, reported, srch>>

\* check_state(cache, nala_pkgs): returns, or ends the command
CheckState(next) ==
    /\ Call(<<"check_state">>)
    /\ \/ Goto(next)
       \/ Exit(1, "check_state", {"bad_state"})
    /\ UNCHANGED <<given, fs, upg, pkgs, marked, reported, srch>>

\* auto_remover(cache, nala_pkgs)
AutoRemover(next) ==
    /\ Call(<<"auto_remover">>)
    /\ Goto(next)
    /\ UNCHANGED <<given, fs, upg, pkgs, marked, reported, srch>>

\* pkg_error(not_found, cache, terminate=...)
PkgError(terminate, next) ==
    /\ Call(<<"pkg_error">>)
    /\ reported' = Range(not_found)
    /\ IF PkgErrorExits(terminate)
       THEN Exit(1, "pkg_error", {"not_found"})
       ELSE /\ pc' = next
            /\ stderr' = stderr \cup {"not_found"}
            /\ UNCHANGED ended

\* ---------------------------------------------------------------- update
UpdateSudoCheck == cmd = "update" /\ pc = "entry" /\ SudoCheck("upd_setup")

UpdateSetupCache ==
    /\ cmd = "update" /\ pc = "upd_setup"
    /\ Call(<<"setup_cache", "print_upgradable">>)
    /\ Return
    /\ UNCHANGED <<given, fs, upg, pkgs, marked, reported, srch>>

\* ----------------------------------------------------------------- clean
CleanSudoCheckMissing ==
    /\ cmd = "clean" /\ pc = "entry"
    /\ Goto("cl_body")
    /\ UNCHANGED <<given, fs, upg, pkgs, marked, reported, srch, calls>>

CleanSudoCheck == cmd = "clean" /\ pc = "entry" /\ SudoCheck("cl_body")

CleanRemove ==
    /\ cmd = "clean" /\ pc = "cl_body"
    /\ fs' = fs \ CleanTargets(arg.lists, arg.fetch)
    /\ Call(<<"iter_remove">>)
    /\ Return
    /\ UNCHANGED <<given, upg, pkgs, marked, reported, srch>>

\* ---------------------------------------------------------------- search
SearchCompile ==
    /\ cmd = "search" /\ pc = "entry"
    /\ Call(<<"Cache", "re.compile">>)
    /\ IF Compiles(Rewrite(arg.regex))
       THEN pattern' = Rewrite(arg.regex) /\ Goto("se_loop")
       ELSE UNCHANGED pattern /\ Exit(1, "re.error", {"regex_error"})
    /\ UNCHANGED <<given, fs, upg, pkgs, marked, reported, examined, printed>>

SearchLoop ==
    /\ cmd = "search" /\ pc = "se_loop"
    /\ examined' = CachePkgs
    /\ \E found \in SUBSET CachePkgs :
         IF found = {}
         THEN UNCHANGED printed /\ Exit(1, "search_empty", {"search_not_found"})
         ELSE printed' = found /\ Return
    /\ Call(<<"search_name", "iter_search">>)
    /\ UNCHANGED <<given, fs, upg, pkgs, marked, reported, pattern>>

\* ------------------------------------------------------------------ show
ShowLoop ==
    /\ cmd = "show" /\ pc = "entry"
    /\ pkg_names' = VirtualFilter(GlobFilter(pkg_names))
    /\ printed' = Range(pkg_names') \cap CachePkgs
    /\ not_found' = NotInCache(pkg_names')
    /\ Call(<<"Cache", "show_main">>)
    /\ Goto("sh_end")
    /\ UNCHANGED <<given, fs, upg, ver_failed, broken, pm_ok, marked, reported,
                   pattern, examined>>

ShowEnd ==
    /\ cmd = "show" /\ pc = "sh_end"
    /\ IF not_found # <<>>
       THEN reported' = Range(not_found) /\ Exit(1, "show_not_found", {"not_found"})
       ELSE UNCHANGED reported /\ Return
    /\ UNCHANGED <<given, fs, upg, pkgs, marked, srch, calls>>

\* --------------------------------------------------------------- upgrade
UpgradeSudoCheck == cmd = "upgrade" /\ pc = "entry" /\ SudoCheck("up_setup")

\* cache = nested_cache or setup_cache()
UpgradeSetupCache ==
    /\ cmd = "upgrade" /\ pc = "up_setup"
    /\ IF depth = 0 THEN Call(<<"setup_cache">>) ELSE UNCHANGED calls
    /\ Goto("up_check_state")
    /\ UNCHANGED <<given, fs, upg, pkgs, marked, reported, srch>>

UpgradeCheckState ==
    cmd = "upgrade" /\ pc = "up_check_state" /\ CheckState("up_mark")

\* is_upgrade, protected, then cache.upgrade(dist_upgrade=full) in the try
UpgradeMark ==
    /\ cmd = "upgrade" /\ pc = "up_mark"
    /\ Call(<<"cache.upgrade">>)
    /\ \E m \in SUBSET CachePkgs : marked' = m
    /\ \/ Goto("up_kept_back")
       \/ Goto("up_except")
    /\ UNCHANGED <<given, fs, upg, pkgs, reported, srch>>

\* except apt_pkg.Error: if exclude: exclude = fix_excluded(...), else raise
UpgradeExcept ==
    /\ cmd = "upgrade" /\ pc = "up_except"
    /\ IF exclude # <<>>
       THEN /\ \E e \in SeqsUpTo(CachePkgs, MaxExclude) :
                 exclude' = e /\ fixed' = e
            /\ Call(<<"fix_excluded">>)
            /\ Goto("up_ask")
       ELSE /\ UNCHANGED <<exclude, fixed, calls>>
            /\ Raise("upgrade_error")
    /\ UNCHANGED <<given, fs, depth, answer, prompts, pkgs, marked, reported, srch>>

\* if ask("Would you like us to protect these and try again?")
UpgradeAsk ==
    /\ cmd = "upgrade" /\ pc = "up_ask"
    /\ Call(<<"ask">>)
    /\ prompts' = prompts + 1
    /\ \/ depth < MaxRetry /\ answer' = "yes" /\ Goto("up_retry")
       \/ answer' = "no" /\ Goto("up_held")
    /\ UNCHANGED <<given, fs, depth, exclude, fixed, pkgs, marked, reported, srch>>

UpgradeRetryNoClear ==
    /\ cmd = "upgrade" /\ pc = "up_retry"
    /\ depth' = depth + 1
    /\ Goto("up_setup")
    /\ UNCHANGED <<given, fs, exclude, fixed, answer, prompts, pkgs, marked,
                   reported, srch, calls>>

\* cache.clear(); _upgrade(full, exclude, cache)
UpgradeRetry ==
    /\ cmd = "upgrade" /\ pc = "up_retry"
    /\ Call(<<"cache.clear">>)
    /\ marked' = {}
    /\ depth' = depth + 1
    /\ Goto("up_setup")
    /\ UNCHANGED <<given, fs, exclude, fixed, answer, prompts, pkgs, reported, srch>>

\* sys.exit("... You have held broken packages")
UpgradeHeld ==
    /\ cmd = "upgrade" /\ pc = "up_held"
    /\ Exit(1, "held_broken", {"held_broken"})
    /\ UNCHANGED <<given, fs, upg, pkgs, marked, reported, srch, calls>>

\* if kept_back: cache.clear(); ...; check_term_ask(); cache.upgrade(...)
UpgradeKeptBack ==
    /\ cmd = "upgrade" /\ pc = "up_kept_back"
    /\ \/ /\ UNCHANGED <<calls, marked>>
          /\ Goto("up_auto_remover")
       \/ /\ Call(<<"cache.clear", "broken_pkg", "check_term_ask", "cache.upgrade">>)
          /\ \E m \in SUBSET CachePkgs : marked' = m
          /\ \/ Goto("up_auto_remover")
             \/ Raise("upgrade_error_kept_back")
    /\ UNCHANGED <<given, fs, upg, pkgs, reported, srch>>

UpgradeAutoRemover ==
    cmd = "upgrade" /\ pc = "up_auto_remover" /\ AutoRemover("up_get_changes")

\* get_changes(cache, nala_pkgs, upgrade=True), then the return of _upgrade:
\* to upgrade at depth 0, to the sys.exit() of the except handler otherwise
UpgradeGetChanges ==
    /\ cmd = "upgrade" /\ pc = "up_get_changes"
    /\ Call(<<"get_changes">>)
    /\ IF depth = 0
       THEN Return /\ UNCHANGED depth
       ELSE IF AfterNestedReturn = "exit"
       THEN Exit(0, "nested_return", {}) /\ UNCHANGED depth
       ELSE Goto(AfterNestedReturn) /\ depth' = depth - 1
    /\ UNCHANGED <<given, fs, exclude, fixed, answer, prompts, pkgs, marked,
                   reported, srch>>

\* --------------------------------------------------------------- install
InstallSudoCheck == cmd = "install" /\ pc = "entry" /\ SudoCheck("in_args")

\* if not pkg_names: _fix_broken() and return, or ctx.fail(...); arg_check
InstallArgs ==
    /\ cmd = "install" /\ pc = "in_args"
    /\ IF pkg_names # <<>>
       THEN Call(<<"arg_check">>) /\ Goto("in_setup")
       ELSE IF arg.fix_broken
       THEN UNCHANGED calls /\ Goto("fb_setup")
       ELSE UNCHANGED calls /\ Exit(2, "ctx.fail", {"missing_packages"})
    /\ UNCHANGED <<given, fs, upg, pkgs, marked, reported, srch>>

InstallSetupCache == cmd = "install" /\ pc = "in_setup" /\ SetupCache("in_check_state")

InstallCheckState ==
    cmd = "install" /\ pc = "in_check_state" /\ CheckState("in_check_broken")

\* split_local, install_local, glob_filter, virtual_filter, check_broken,
\* not_found.extend(not_exist)
InstallCheckBroken ==
    /\ cmd = "install" /\ pc = "in_check_broken"
    /\ pkg_names' = VirtualFilter(GlobFilter(pkg_names))
    /\ not_found' = NotInCache(pkg_names') \o SplitLocal(pkg_names)
    /\ ver_failed' \in BOOLEAN
    /\ broken' \in SUBSET (Range(pkg_names') \cap CachePkgs)
    /\ Call(<<"split_local", "install_local", "check_broken">>)
    /\ Goto("in_pkg_error")
    /\ UNCHANGED <<given, fs, upg, pm_ok, marked, reported, srch>>

InstallPkgErrorNoTerminate ==
    /\ cmd = "install" /\ pc = "in_pkg_error"
    /\ IF not_found # <<>> \/ ver_failed
       THEN PkgError(FALSE, "in_package_manager")
       ELSE UNCHANGED <<calls, reported>> /\ Goto("in_package_manager")
    /\ UNCHANGED <<given, fs, upg, pkgs, marked, srch>>

\* if not_found or ver_failed: pkg_error(not_found, cache, terminate=True)
InstallPkgError ==
    /\ cmd = "install" /\ pc = "in_pkg_error"
    /\ IF not_found # <<>> \/ ver_failed
       THEN PkgError(TRUE, "in_package_manager")
       ELSE UNCHANGED <<calls, reported>> /\ Goto("in_package_manager")
    /\ UNCHANGED <<given, fs, upg, pkgs, marked, srch>>

\* if (not package_manager(...) or not all(marked ...)) and not
\* broken_error(broken, cache): unmarked_error(pkgs)
InstallPackageManager ==
    /\ cmd = "install" /\ pc = "in_package_manager"
    /\ \E ok \in BOOLEAN, m \in SUBSET CachePkgs :
         /\ pm_ok' = IF ok THEN "true" ELSE "false"
         /\ marked' = m
         /\ IF InstallFailed(ok, Range(pkg_names) \subseteq m)
            THEN IF BrokenErrorExits(broken)
                 THEN /\ Call(<<"package_manager", "broken_error">>)
                      /\ Exit(1, "broken_error", {"broken"})
                 ELSE /\ Call(<<"package_manager", "broken_error", "unmarked_error">>)
                      /\ IF UnmarkedErrorExits
                         THEN Exit(1, "unmarked_error", {"unmarked"})
                         ELSE /\ pc' = "in_auto_remover"
                              /\ stderr' = stderr \cup {"unmarked"}
                              /\ UNCHANGED ended
            ELSE /\ Call(<<"package_manager">>)
                 /\ Goto("in_auto_remover")
    /\ UNCHANGED <<given, fs, upg, pkg_names, not_found, ver_failed, broken,
                   reported, srch>>

InstallAutoRemover ==
    cmd = "install" /\ pc = "in_auto_remover" /\ AutoRemover("in_get_changes")

InstallGetChanges ==
    /\ cmd = "install" /\ pc = "in_get_changes"
    /\ Call(<<"get_changes">>)
    /\ Return
    /\ UNCHANGED <<given, fs, upg, pkgs, marked, reported, srch>>

\* ----------------------------------------------------------- _fix_broken
\* cache = nested_cache or setup_cache(); cache.fix_broken()
FixBrokenSetup ==
    /\ cmd = "install" /\ pc = "fb_setup"
    /\ Call(<<"setup_cache", "cache.fix_broken">>)
    /\ \E m \in SUBSET CachePkgs : marked' = m
    /\ Goto("fb_check_state")
    /\ UNCHANGED <<given, fs, upg, pkgs, reported, srch>>

\* not nested: check_state(cache, nala_pkgs)
FixBrokenCheckState ==
    cmd = "install" /\ pc = "fb_check_state" /\ CheckState("fb_get_changes")

FixBrokenGetChanges ==
    /\ cmd = "install" /\ pc = "fb_get_changes"
    /\ Call(<<"get_changes">>)
    /\ Return
    /\ UNCHANGED <<given, fs, upg, pkgs, marked, reported, srch>>

\* ---------------------------------------------------------- remove, purge
IsRemove == cmd \in {"remove", "purge"}

RemoveSudoCheck == IsRemove /\ pc = "entry" /\ SudoCheck("rm_setup")

\* arg_check(pkg_names); cache = setup_cache()
RemoveSetupCache ==
    /\ IsRemove /\ pc = "rm_setup"
    /\ Call(<<"arg_check", "setup_cache">>)
    /\ Goto("rm_check_state")
    /\ UNCHANGED <<given, fs, upg, pkgs, marked, reported, srch>>

RemoveCheckState == IsRemove /\ pc = "rm_check_state" /\ CheckState("rm_check_broken")

RemoveCheckBroken ==
    /\ IsRemove /\ pc = "rm_check_broken"
    /\ pkg_names' = VirtualFilter(GlobFilter(pkg_names))
    /\ not_found' = NotInCache(pkg_names')
    /\ ver_failed' \in BOOLEAN
    /\ broken' \in SUBSET (Range(pkg_names') \cap CachePkgs)
    /\ Call(<<"check_broken">>)
    /\ Goto("rm_pkg_error")
    /\ UNCHANGED <<given, fs, upg, pm_ok, marked, reported, srch>>

\* if not_found or ver_failed: pkg_error(not_found, cache, remove=True):
\* no terminate=True, the command goes on
RemovePkgError ==
    /\ IsRemove /\ pc = "rm_pkg_error"
    /\ IF not_found # <<>> \/ ver_failed
       THEN PkgError(FALSE, "rm_package_manager")
       ELSE UNCHANGED <<calls, reported>> /\ Goto("rm_package_manager")
    /\ UNCHANGED <<given, fs, upg, pkgs, marked, srch>>

\* if not package_manager(..., remove=True, purge=_purge): broken_error(...)
RemovePackageManager ==
    /\ IsRemove /\ pc = "rm_package_manager"
    /\ \E ok \in BOOLEAN :
         /\ pm_ok' = IF ok THEN "true" ELSE "false"
         /\ IF ok
            THEN Call(<<"package_manager">>) /\ Goto("rm_auto_remover")
            ELSE /\ Call(<<"package_manager", "broken_error">>)
                 /\ IF BrokenErrorExits(broken)
                    THEN Exit(1, "broken_error", {"broken"})
                    ELSE Goto("rm_auto_remover")
    /\ UNCHANGED <<given, fs, upg, pkg_names, not_found, ver_failed, broken,
                   marked, reported, srch>>

RemoveAutoRemoverSkipped ==
    /\ IsRemove /\ pc = "rm_auto_remover"
    /\ Goto("rm_get_changes")
    /\ UNCHANGED <<given, fs, upg, pkgs, marked, reported, srch, calls>>

RemoveAutoRemover == IsRemove /\ pc = "rm_auto_remover" /\ AutoRemover("rm_get_changes")

RemoveGetChanges ==
    /\ IsRemove /\ pc = "rm_get_changes"
    /\ Call(<<"get_changes">>)
    /\ Return
    /\ UNCHANGED <<given, fs, upg, pkgs, marked, reported, srch>>

\* ------------------------------------------------- autoremove, autopurge
IsAutoRemove == cmd \in {"autoremove", "autopurge"}

AutoRemoveSudoCheck == IsAutoRemove /\ pc = "entry" /\ SudoCheck("ar_setup")

AutoRemoveSetupCache == IsAutoRemove /\ pc = "ar_setup" /\ SetupCache("ar_check_state")

AutoRemoveCheckState ==
    IsAutoRemove /\ pc = "ar_check_state" /\ CheckState("ar_auto_remover")

AutoRemoveAutoRemover ==
    IsAutoRemove /\ pc = "ar_auto_remover" /\ AutoRemover("ar_get_changes")

AutoRemoveGetChanges ==
    /\ IsAutoRemove /\ pc = "ar_get_changes"
    /\ Call(<<"get_changes">>)
    /\ Return
    /\ UNCHANGED <<given, fs, upg, pkgs, marked, reported, srch>>

\* ------------------------------------------------------------ the program
Next ==
    \/ UpdateSudoCheck \/ UpdateSetupCache
    \/ UpgradeSudoCheck \/ UpgradeSetupCache \/ UpgradeCheckState \/ UpgradeMark
    \/ UpgradeExcept \/ UpgradeAsk \/ UpgradeRetry \/ UpgradeHeld
    \/ UpgradeKeptBack \/ UpgradeAutoRemover \/ UpgradeGetChanges
    \/ InstallSudoCheck \/ InstallArgs \/ InstallSetupCache \/ InstallCheckState
    \/ InstallCheckBroken \/ InstallPkgError \/ InstallPackageManager
    \/ InstallAutoRemover \/ InstallGetChanges
    \/ FixBrokenSetup \/ FixBrokenCheckState \/ FixBrokenGetChanges
    \/ RemoveSudoCheck \/ RemoveSetupCache \/ RemoveCheckState \/ RemoveCheckBroken
    \/ RemovePkgError \/ RemovePackageManager \/ RemoveAutoRemover \/ RemoveGetChanges
    \/ AutoRemoveSudoCheck \/ AutoRemoveSetupCache \/ AutoRemoveCheckState
    \/ AutoRemoveAutoRemover \/ AutoRemoveGetChanges
    \/ CleanSudoCheck \/ CleanRemove
    \/ SearchCompile \/ SearchLoop
    \/ ShowLoop \/ ShowEnd

Spec == Init /\ [][Next]_vars

\* ---------------------------------------------------------- the properties
Idx(c) == {i \in 1..Len(calls) : calls[i] = c}
Has(c) == Idx(c) # {}
MarkIdx == Idx("cache.upgrade") \cup Idx("package_manager")

\* the requested names after glob and virtual-package expansion that are no
\* package of the cache
Missing == Range(VirtualFilter(GlobFilter(arg.names))) \ CachePkgs

\* upgrade, install with package names, remove/purge, autoremove/autopurge
Transaction ==
    \/ cmd \in {"upgrade", "remove", "purge", "autoremove", "autopurge"}
    \/ cmd = "install" /\ arg.names # <<>>

\* C1: an upgrade started with a non-empty exclude list offers the "protect
\* these and try again?" prompt at most once: a second engine error in the
\* retried _upgrade aborts without a second prompt.
C1_PromptOfferedOnce ==
    (cmd = "upgrade" /\ arg.exclude # <<>>) => prompts <= 1

\* C2: clean --lists, with or without --fetch, removes LISTS_DIR and
\* LISTS_PARTIAL_DIR and nothing else: the archive directories, the package
\* caches and the nala sources file are as they were.
C2_CleanListsOnlyLists ==
    (cmd = "clean" /\ arg.lists) =>
        /\ (arg.fs \ fs) \subseteq {LISTS_DIR, LISTS_PARTIAL_DIR}
        /\ fs \subseteq arg.fs
        /\ status = "returned" => fs = arg.fs \ {LISTS_DIR, LISTS_PARTIAL_DIR}

C2_Witness ==
    /\ cmd = "clean" /\ arg.lists /\ arg.fetch /\ status = "returned"
    /\ arg.fs = Paths
    /\ fs = {ARCHIVE_DIR, PARTIAL_DIR, PKGCACHE, SRCPKGCACHE, NALA_SOURCES}

\* C3: search compiles the regex as given, except that "*" alone becomes
\* ".*"; when that does not compile the command ends with status 1 and a
\* message, having examined no package and printed no result.
C3_InvalidRegexExits ==
    cmd = "search" =>
        LET asGiven == IF arg.regex = Star THEN DotStar ELSE arg.regex IN
        /\ pattern # NoPattern => pattern = asGiven
        /\ ~Compiles(asGiven) =>
             /\ pattern = NoPattern /\ examined = {} /\ printed = {}
             /\ pc \in {"entry", "done"}
             /\ pc = "done" =>
                  status = "exited" /\ exit_code = 1 /\ "regex_error" \in stderr

C3_Witness ==
    /\ cmd = "search" /\ pc = "done"
    /\ arg.regex = <<"*", "*">>
    /\ exit_code = 1 /\ "regex_error" \in stderr /\ examined = {}

\* C4: install and show with a requested name that (after expansion) is no
\* package of the cache end with status 1 and a "not found" message naming
\* every such name; install has then neither called package_manager nor
\* get_changes, and has marked nothing.
C4_NotFoundReported ==
    /\ (cmd = "install" /\ Missing # {}) =>
         /\ ~Has("package_manager") /\ ~Has("get_changes") /\ marked = {}
         /\ pc = "done" =>
              /\ status = "exited" /\ exit_code = 1
              /\ exit_at \notin {"sudo_check", "check_state"} =>
                   /\ exit_at = "pkg_error"
                   /\ "not_found" \in stderr
                   /\ reported = Missing
    /\ (cmd = "show" /\ Missing # {} /\ pc = "done") =>
         /\ status = "exited" /\ exit_code = 1
         /\ "not_found" \in stderr
         /\ reported = Missing

C4_Witness ==
    /\ cmd = "install" /\ pc = "done" /\ exit_at = "pkg_error"
    /\ arg.names = <<Unknown, GlobMiss>>
    /\ reported = {Unknown, GlobMiss}
    /\ exit_code = 1

\* C5: remove and purge with a name that is not found (or a failed version)
\* end with a non-zero status without calling package_manager, auto_remover
\* or get_changes.
C5_RemoveNotFoundEnds ==
    (IsRemove /\ Has("check_broken") /\ (not_found # <<>> \/ ver_failed)) =>
        /\ ~Has("package_manager") /\ ~Has("auto_remover") /\ ~Has("get_changes")
        /\ pc = "done" => exit_code # 0

\* C6: in update, upgrade, install, remove/purge, autoremove/autopurge and
\* clean, sudo_check is the first call; without root the command ends there
\* with a non-zero status: the cache is not opened, nothing is marked and no
\* path is removed.
C6_SudoFirst ==
    cmd \in SudoCommands =>
        /\ calls # <<>> => calls[1] = "sudo_check"
        /\ pc # "entry" => calls # <<>>
        /\ ~is_su =>
             /\ calls \in {<<>>, <<"sudo_check">>}
             /\ marked = {} /\ fs = arg.fs
             /\ pc \in {"entry", "done"}
             /\ pc = "done" =>
                  status = "exited" /\ exit_code # 0 /\ exit_at = "sudo_check"

C6_Witness ==
    /\ cmd = "clean" /\ ~is_su /\ pc = "done"
    /\ arg.fs = Paths /\ fs = Paths
    /\ exit_code = 1 /\ "need_root" \in stderr

\* C7 as stated: a transaction command that reaches get_changes has called
\* setup_cache, check_state, the marking calls, auto_remover and get_changes
\* in that order: no check_state after a marking call, auto_remover not
\* skipped.
C7_StrictOrder ==
    (Transaction /\ Has("get_changes")) =>
        /\ Has("setup_cache") /\ Has("check_state") /\ Has("auto_remover")
        /\ \A i \in Idx("setup_cache"), j \in Idx("check_state") : i < j
        /\ \A i \in Idx("check_state"), j \in MarkIdx : i < j
        /\ \A i \in MarkIdx, j \in Idx("auto_remover") : i < j
        /\ \A i \in Idx("auto_remover"), j \in Idx("get_changes") : i < j

\* C7 amended: a transaction command that reaches get_changes has called
\* setup_cache once, before every check_state; a check_state before every
\* marking call; every marking call (at least one, none for autoremove)
\* before auto_remover; and auto_remover once, right before get_changes.
\* check_state is called after a marking call only in upgrade, after a
\* confirmed retry prompt, with a cache.clear between the two.
C7_OrderWithRetry ==
    (Transaction /\ Has("get_changes")) =>
        /\ Count(calls, "setup_cache") = 1
        /\ Has("check_state")
        /\ \A i \in Idx("setup_cache"), j \in Idx("check_state") : i < j
        /\ \A j \in MarkIdx : \E i \in Idx("check_state") : i < j
        /\ \A i \in MarkIdx, j \in Idx("check_state") :
             i < j => /\ cmd = "upgrade" /\ answer = "yes"
                      /\ \E k \in Idx("cache.clear") : i < k /\ k < j
        /\ (MarkIdx = {}) <=> IsAutoRemove
        /\ Count(calls, "auto_remover") = 1
        /\ \A i \in MarkIdx, j \in Idx("auto_remover") : i < j
        /\ Len(calls) >= 2
        /\ calls[Len(calls) - 1] = "auto_remover"
        /\ calls[Len(calls)] = "get_changes"

C7_Witness ==
    /\ cmd = "upgrade" /\ Has("get_changes") /\ depth = 1
    /\ Count(calls, "check_state") = 2
    /\ Count(calls, "cache.upgrade") = 2

\* C8: an install that reaches auto_remover and get_changes had
\* package_manager succeed and every requested package marked; otherwise
\* broken_error (when there are broken packages) or unmarked_error ended the
\* command with status 1 and the change set was not computed.
C8_InstallMarksMatch ==
    cmd = "install" =>
        /\ Has("auto_remover") =>
             pm_ok = "true" /\ Range(pkg_names) \subseteq marked
        /\ (pm_ok = "false" \/ (pm_ok = "true" /\ ~(Range(pkg_names) \subseteq marked))) =>
             /\ ~Has("auto_remover") /\ ~Has("get_changes")
             /\ pc = "done" /\ status = "exited" /\ exit_code = 1
             /\ IF broken # {} THEN exit_at = "broken_error" /\ "broken" \in stderr
                ELSE exit_at = "unmarked_error" /\ "unmarked" \in stderr

C8_Witness ==
    /\ cmd = "install" /\ Has("get_changes") /\ pm_ok = "true"
    /\ arg.names = <<GlobHit>>
    /\ marked = {"p1", "p2"}

\* C9: when cache.upgrade raises, (a) with an empty exclude list the error
\* propagates and nothing is asked; (b) with a non-empty one and the answer
\* no, the command ends with status 1 and the "held broken packages" message,
\* auto_remover and get_changes never called; (c) with the answer yes,
\* cache.clear is called and the marks are gone before _upgrade runs again,
\* nested, on the same cache (no second setup_cache) with the exclude list
\* fix_excluded returned.  _upgrade is nested in no other way.
C9_RetryOnlyWithConfirmation ==
    [][cmd = "upgrade" =>
        /\ (pc = "up_except" /\ exclude = <<>>) =>
             status' = "raised" /\ prompts' = prompts /\ calls' = calls
        /\ (pc = "up_except" /\ exclude # <<>>) =>
             pc' = "up_ask" /\ prompts' = prompts /\ exclude' = fixed'
        /\ pc = "up_ask" =>
             /\ prompts' = prompts + 1
             /\ \/ answer' = "yes" /\ pc' = "up_retry"
                \/ answer' = "no" /\ pc' = "up_held"
        /\ pc = "up_held" =>
             /\ answer = "no"
             /\ status' = "exited" /\ exit_code' = 1 /\ "held_broken" \in stderr'
             /\ ~Has("auto_remover")' /\ ~Has("get_changes")'
        /\ pc = "up_retry" =>
             /\ answer = "yes"
             /\ calls' = Append(calls, "cache.clear")
             /\ marked' = {}
             /\ pc' = "up_setup" /\ depth' = depth + 1
             /\ exclude' = fixed
        /\ depth' # depth => pc = "up_retry"
        /\ (pc = "up_setup" /\ depth > 0) => calls' = calls
      ]_vars

C9_Witness ==
    /\ cmd = "upgrade" /\ depth = 1 /\ pc = "up_mark"
    /\ answer = "yes" /\ marked = {}
    /\ exclude = fixed /\ fixed # arg.exclude
    /\ Count(calls, "setup_cache") = 1

\* C10: get_changes is called at most once in an invocation; an upgrade that
\* retried ends with status 0 right after the nested get_changes, the outer
\* _upgrade running neither its kept-back check nor auto_remover nor
\* get_changes.
C10_GetChangesOnce ==
    /\ Count(calls, "get_changes") <= 1
    /\ (cmd = "upgrade" /\ Has("get_changes") /\ depth > 0) =>
         /\ pc = "done" /\ status = "exited" /\ exit_code = 0
         /\ exit_at = "nested_return"
         /\ calls[Len(calls)] = "get_changes"
         /\ Count(calls, "auto_remover") = 1

C10_Witness ==
    /\ cmd = "upgrade" /\ depth = 2 /\ exit_at = "nested_return"
    /\ Count(calls, "get_changes") = 1 /\ exit_code = 0
====
